---- MODULE Spec2Model ----
(***************************************************************************)
(* Model of the AirQ forecast backend: the /api/predict recursive          *)
(* forecaster, the /api/predict_by_city fan-out, the /api/refresh trigger  *)
(* (backend/app/main.py), the feature builder (backend/app/model_utils.py) *)
(* and the ingestion routine fetch_data (scripts/fetch_cpcb_api.py).       *)
(*                                                                         *)
(* Numbers.  A Python float is modelled exactly: a pair <<n, d>> is the    *)
(* rational n/d (d > 0, lowest terms) and <<0, 0>> is NaN.  Timestamps are *)
(* whole hours counted from a Monday 00:00 UTC.                            *)
(***************************************************************************)
EXTENDS Integers, Sequences, FiniteSets, TLC

VARIABLES
    hist,          \* data/historical/india_hourly_raw.csv: NoFile or its rows
    out,           \* data/processed/india_realtime_api.csv (PROCESSED_CSV)
    modelPkl,      \* models/model_global.pkl: NoFile or the regressor in it
    requiredToken, \* os.getenv("REFRESH_TOKEN")
    fetchFn,       \* the module global _fetch_data: "none" or "loaded"
    task,          \* the refresh requests, by slot
    nRefresh,      \* refresh requests received so far
    pc,            \* position of the running predict call
    caller,        \* who called predict: "http" or "city"
    station_id,    \* predict's arguments
    horizon,
    features,      \* predict's locals
    cur,
    preds,
    i,
    cpc,           \* position of the running predict_by_city request
    cityq,         \* predict_by_city's arguments and locals
    station_ids,
    results,
    response       \* what the last /predict or /predict_by_city request answered

vars == <<hist, out, modelPkl, requiredToken, fetchFn, task, nRefresh,
          pc, caller, station_id, horizon, features, cur, preds, i,
          cpc, cityq, station_ids, results, response>>

fileVars == <<hist, out>>
refreshVars == <<requiredToken, fetchFn, task, nRefresh>>
predictVars == <<pc, caller, station_id, horizon, features, cur, preds, i>>
cityVars == <<cpc, cityq, station_ids, results>>

----------------------------------------------------------------------------
(* Bounds of the model *)

MaxH == 26          \* horizons requested of /api/predict: 1..MaxH
MaxCityH == 2       \* horizons requested of /api/predict_by_city
MaxBatch == 2       \* records in one answer of the upstream API
MaxRefresh == 2     \* refresh requests in one behaviour

(* Program constants *)

MaxLag == 24        \* max_lag=24, and the 24 of the shift loop
HorizonLe == 168    \* Query(24, ge=1, le=168)
HorizonGe == 1

NoFile == [exists |-> FALSE, rows |-> <<>>]
File(rows) == [exists |-> TRUE, rows |-> rows]

----------------------------------------------------------------------------
(* Floats *)

NaN == <<0, 0>>
IsNaN(x) == x[2] = 0
F(n) == <<n, 1>>

Abs(n) == IF n < 0 THEN -n ELSE n

RECURSIVE GCD(_, _)
GCD(a, b) == IF b = 0 THEN a ELSE GCD(b, a % b)

RatNorm(n, d) ==
    LET g == GCD(Abs(n), d) IN <<n \div g, d \div g>>

RatAdd(a, b) ==
    IF IsNaN(a) \/ IsNaN(b) THEN NaN
    ELSE RatNorm(a[1] * b[2] + b[1] * a[2], a[2] * b[2])

RatDivInt(a, k) == IF IsNaN(a) THEN NaN ELSE RatNorm(a[1], a[2] * k)

\* a < b on floats: every comparison with NaN is false
RatLt(a, b) == ~IsNaN(a) /\ ~IsNaN(b) /\ a[1] * b[2] < b[1] * a[2]

\* Python's max(a, b) and min(a, b): the first argument is kept unless the
\* second compares greater (smaller)
PyMax(a, b) == IF RatLt(a, b) THEN b ELSE a
PyMin(a, b) == IF RatLt(b, a) THEN b ELSE a

RECURSIVE SeqSum(_)
SeqSum(s) == IF s = <<>> THEN F(0) ELSE RatAdd(Head(s), SeqSum(Tail(s)))

(* rolling_24_mean is divided by 24 at every step: its value is kept as    *)
(* (ip + 0.fr) / den, fr being digits in base 24, so that no step rounds.  *)
RollNaN == [den |-> 0, ip |-> 0, fr |-> <<>>]
RollOf(r) == IF IsNaN(r) THEN RollNaN ELSE [den |-> r[2], ip |-> r[1], fr |-> <<>>]

RECURSIVE Mul23(_)
Mul23(fr) ==
    IF fr = <<>> THEN [fr |-> <<>>, carry |-> 0]
    ELSE LET rest == Mul23(Tail(fr))
             v == Head(fr) * 23 + rest.carry
         IN [fr |-> <<v % 24>> \o rest.fr, carry |-> v \div 24]

RollUpdateUnweighted(r, p) ==
    IF r.den = 0 \/ IsNaN(p) THEN RollNaN
    ELSE LET n == r.ip + r.den * p[1]
         IN [den |-> r.den, ip |-> n \div 24, fr |-> <<n % 24>> \o r.fr]

RollUpdate(r, p) ==
    IF r.den = 0 \/ IsNaN(p) THEN RollNaN
    ELSE LET m == Mul23(r.fr)
             n == r.ip * 23 + m.carry + r.den * p[1]
         IN [den |-> r.den, ip |-> n \div 24, fr |-> <<n % 24>> \o m.fr]

----------------------------------------------------------------------------
(* The upstream API and the dataset rows *)

Times == {47, 49}           \* last_update values, in hours
Vals == {40, 60}            \* avg_value readings
NaT == 0 - 1                 \* a last_update that does not parse

ApiStations ==
    { [station |-> "Anand Vihar", city |-> "Delhi", lat |-> F(28), lon |-> F(77)],
      [station |-> "Anand-Vihar", city |-> "Delhi", lat |-> F(28), lon |-> F(77)],
      [station |-> "ITO",         city |-> "delhi", lat |-> F(29), lon |-> F(77)],
      [station |-> "RK Puram",    city |-> "Delhi", lat |-> F(27), lon |-> F(77)],
      [station |-> "Karve Road",  city |-> "Pune",  lat |-> F(18), lon |-> F(73)] }

ApiRecord(st, pol, ts, v) ==
    [pollutant_id |-> pol, station |-> st.station, city |-> st.city,
     last_update |-> ts, avg_value |-> v, latitude |-> st.lat, longitude |-> st.lon]

AnyStation == CHOOSE st \in ApiStations : st.station = "ITO"

ApiRecords ==
    { ApiRecord(st, "PM2.5", ts, F(v)) : st \in ApiStations, ts \in Times, v \in Vals }
    \cup { ApiRecord(AnyStation, "PM10", 47, F(40)),
           ApiRecord(AnyStation, "PM2.5", 47, NaN),
           ApiRecord(AnyStation, "PM2.5", NaT, F(40)) }

BatchesOver(recs, n) == UNION { [1..k -> recs] : k \in 0..n }

\* re.sub(r"\W+", "_", f"{station_name}__{city}").strip("_"), prefixed CPCB_
make_station_id(station_name, city) ==
    CASE station_name \in {"Anand Vihar", "Anand-Vihar"} /\ city = "Delhi"
            -> "CPCB_Anand_Vihar__Delhi"
      [] station_name = "ITO" /\ city = "delhi" -> "CPCB_ITO__delhi"
      [] station_name = "RK Puram" /\ city = "Delhi" -> "CPCB_RK_Puram__Delhi"
      [] station_name = "Karve Road" /\ city = "Pune" -> "CPCB_Karve_Road__Pune"
      [] OTHER -> "CPCB_"

\* the station ids in Python's string order
SidOrder == << "CPCB_", "CPCB_Anand_Vihar__Delhi", "CPCB_ITO__delhi",
               "CPCB_Karve_Road__Pune", "CPCB_RK_Puram__Delhi" >>
SidRank(s) == CHOOSE k \in 1..Len(SidOrder) : SidOrder[k] = s

\* str.lower() on the city names in use
Lower(c) ==
    CASE c \in {"Delhi", "delhi", "DELHI"} -> "delhi"
      [] c \in {"Pune", "pune"} -> "pune"
      [] OTHER -> c

SameKey(a, b) == a.station_id = b.station_id /\ a.datetime_utc = b.datetime_utc

\* drop_duplicates(subset=["station_id", "datetime_utc"], keep="last")
DropDuplicatesLast(rows) ==
    LET keep == { j \in 1..Len(rows) :
                    \A l \in (j + 1)..Len(rows) : ~SameKey(rows[j], rows[l]) }
        RECURSIVE Pick(_)
        Pick(j) == IF j > Len(rows) THEN <<>>
                   ELSE (IF j \in keep THEN <<rows[j]>> ELSE <<>>) \o Pick(j + 1)
    IN Pick(1)

RowLe(a, b) ==
    \/ SidRank(a.station_id) < SidRank(b.station_id)
    \/ a.station_id = b.station_id /\ a.datetime_utc <= b.datetime_utc

\* sort_values(["station_id", "datetime_utc"]): a stable lexicographic sort
RECURSIVE SortRows(_)
SortRows(rows) ==
    IF rows = <<>> THEN <<>>
    ELSE LET n == Len(rows)
             x == rows[n]
             s == SortRows(SubSeq(rows, 1, n - 1))
             k == Cardinality({ j \in 1..Len(s) : RowLe(s[j], x) })
         IN SubSeq(s, 1, k) \o <<x>> \o SubSeq(s, k + 1, Len(s))

\* fetch_data up to the column selection: the PM2.5 rows of the answer,
\* renamed, with station_id, the unparsable ones dropped
FetchedRows(records) ==
    LET pm == SelectSeq(records, LAMBDA r : r.pollutant_id = "PM2.5")
        row(r) == [station_id |-> make_station_id(r.station, r.city),
                   station_name |-> r.station, city |-> r.city,
                   datetime_utc |-> r.last_update, pm25 |-> r.avg_value,
                   lat |-> r.latitude, lon |-> r.longitude]
        df == [j \in 1..Len(pm) |-> row(pm[j])]
    IN SelectSeq(df, LAMBDA r : r.datetime_utc # NaT /\ ~IsNaN(r.pm25))

\* fetch_data returns None before touching any file
FetchReturnsNone(records) ==
    \/ records = <<>>
    \/ SelectSeq(records, LAMBDA r : r.pollutant_id = "PM2.5") = <<>>

\* the history file left out of the merge: combined = df.copy() on both paths
CombinedFetchedOnly(histFile, df) == SortRows(df)

\* the history the run writes, from the history file it read and its rows
Combined(histFile, df) ==
    IF histFile.exists
    THEN SortRows(DropDuplicatesLast(histFile.rows \o df))
    ELSE SortRows(df)

----------------------------------------------------------------------------
(* model_utils.py *)

\* the regressors a model file may hold: the prediction is a function of the
\* feature row (whole numbers, NaN, or an exception)
Regressor(base, slope, failHours, nanHours) ==
    [base |-> base, slope |-> slope, failHours |-> failHours, nanHours |-> nanHours]

NoModel == [exists |-> FALSE]
ModelFile(m) == [exists |-> TRUE, model |-> m]

\* the call wrapped in try/except with a default of 0.0
ModelPredictDefaultZero(m, row) ==
    [raised |-> FALSE,
     val |-> IF row.hour \in m.failHours THEN F(0)
             ELSE IF row.hour \in m.nanHours THEN NaN
             ELSE F(m.base + m.slope * row.hour)]

\* model.predict(cur)[0]
ModelPredict(m, row) ==
    IF row.hour \in m.failHours THEN [raised |-> TRUE, val |-> NaN]
    ELSE [raised |-> FALSE,
          val |-> IF row.hour \in m.nanHours THEN NaN
                  ELSE F(m.base + m.slope * row.hour)]

NoFeatures == [found |-> FALSE]

StationRows(file, sid) == SelectSeq(file.rows, LAMBDA r : r.station_id = sid)

\* resample("h").mean() of one column, given as <<hour, value>> pairs: the
\* mean of the hour's defined values (skipna), NaN for an hour with none
HourMean(col, t) ==
    LET at == SelectSeq(col, LAMBDA c : c[1] = t /\ ~IsNaN(c[2]))
    IN IF at = <<>> THEN NaN
       ELSE RatDivInt(SeqSum([j \in 1..Len(at) |-> at[j][2]]), Len(at))

\* .ffill(): the last defined value at or before hour t, from hour first on
RECURSIVE Filled(_, _, _)
Filled(col, first, t) ==
    IF t < first THEN NaN
    ELSE LET v == HourMean(col, t)
         IN IF IsNaN(v) THEN Filled(col, first, t - 1) ELSE v

\* the value passed on as it is, without the pd.isna test
OrZeroKeep(v) == v
OrZero(v) == IF IsNaN(v) THEN F(0) ELSE v

build_features_for_station(file, sid, max_lag) ==
    LET rows == StationRows(file, sid)
        ts == { rows[j].datetime_utc : j \in 1..Len(rows) }
        first == CHOOSE t \in ts : \A u \in ts : t <= u
        last == CHOOSE t \in ts : \A u \in ts : u <= t
        pm == [j \in 1..Len(rows) |-> <<rows[j].datetime_utc, rows[j].pm25>>]
        lat == [j \in 1..Len(rows) |-> <<rows[j].datetime_utc, rows[j].lat>>]
        lon == [j \in 1..Len(rows) |-> <<rows[j].datetime_utc, rows[j].lon>>]
        \* df["pm25"].shift(lag) at the last row
        shifted(lag) == IF last - lag >= first
                        THEN Filled(pm, first, last - lag) ELSE NaN
        \* rolling(24, min_periods=1).mean() at the last row: the mean of the
        \* defined values of the window, NaN when it has none
        lo == IF last - 23 > first THEN last - 23 ELSE first
        window == SelectSeq([j \in 1..(last - lo + 1) |-> Filled(pm, first, lo + j - 1)],
                            LAMBDA v : ~IsNaN(v))
        rolling == IF window = <<>> THEN NaN
                   ELSE RatDivInt(SeqSum(window), Len(window))
    IN IF rows = <<>> THEN NoFeatures
       ELSE [found |-> TRUE,
             lag |-> [k \in 1..max_lag |-> OrZero(shifted(k))],
             rolling_24_mean |-> RollOf(OrZero(rolling)),
             hour |-> last % 24,
             dayofweek |-> (last \div 24) % 7,
             lat |-> OrZero(Filled(lat, first, last)),
             lon |-> OrZero(Filled(lon, first, last))]

----------------------------------------------------------------------------
(* main.py: predict *)

NoResponse == [status |-> 0]
HTTPException(status, detail) == [status |-> status, detail |-> detail, msg |-> detail]
\* an exception of the regressor: FastAPI answers 500, str(e) is its message
PredictionError ==
    [status |-> 500, detail |-> "Internal Server Error", msg |-> "prediction failed"]
FileNotFound ==
    [status |-> 500, detail |-> "Internal Server Error", msg |-> "No such file"]

\* pred = max(pred, 0.0); pred = min(pred, 1000.0)
Clamp(pred) == PyMin(PyMax(pred, F(0)), F(1000))

\* for lag in range(24, 1, -1): cur[f"lag_{lag}"] = cur[f"lag_{lag-1}"]
RECURSIVE ShiftFrom(_, _)
ShiftFrom(lags, k) ==
    IF k <= 1 THEN lags
    ELSE ShiftFrom([lags EXCEPT ![k] = lags[k - 1]], k - 1)

\* the shift run upwards, for lag in range(2, 25): lag_1 floods the window
RECURSIVE ShiftUpFrom(_, _)
ShiftUpFrom(lags, k) ==
    IF k > 24 THEN lags
    ELSE ShiftUpFrom([lags EXCEPT ![k] = lags[k - 1]], k + 1)

ShiftLagsAscending(row, pred) ==
    [row EXCEPT !.lag = [ShiftUpFrom(row.lag, 2) EXCEPT ![1] = pred]]

ShiftLags(row, pred) ==
    [row EXCEPT !.lag = [ShiftFrom(row.lag, 24) EXCEPT ![1] = pred]]

\* cur["rolling_24_mean"] = (cur["rolling_24_mean"] * 23 + pred) / 24.0
UpdateRolling(row, pred) ==
    [row EXCEPT !.rolling_24_mean = RollUpdate(row.rolling_24_mean, pred)]

\* cur.at[cur.index[0], "hour"] = int((current_hour + 1) % 24); the column
\* always holds an int, so the except branch (utcnow) is never taken
AdvanceHourNoWrap(row) == [row EXCEPT !.hour = row.hour + 1]
AdvanceHour(row) == [row EXCEPT !.hour = (row.hour + 1) % 24]

\* one pass of the loop body after the prediction
StepRow(row, pred) == AdvanceHour(UpdateRolling(ShiftLags(row, pred), pred))

\* the last observed timestamp of the station, or utcnow() when it has none
LastTs(file, sid, now) ==
    LET rows == StationRows(file, sid)
        ts == { rows[j].datetime_utc : j \in 1..Len(rows) }
    IN IF rows = <<>> THEN now ELSE CHOOSE t \in ts : \A u \in ts : u <= t

\* the timestamps counted from last_ts itself: Timedelta(hours=i)
OutputFromZero(last_ts, h, ps) ==
    [j \in 1..(IF Len(ps) < h THEN Len(ps) ELSE h) |->
        [timestamp |-> last_ts + j - 1, pm25 |-> ps[j]]]

\* zip(timestamps, preds) with timestamps last_ts + 1 .. last_ts + horizon
Output(last_ts, h, ps) ==
    [j \in 1..(IF Len(ps) < h THEN Len(ps) ELSE h) |->
        [timestamp |-> last_ts + j, pm25 |-> ps[j]]]

\* the return of the handler registered first for GET /api/predict
PredictResult(sid, last_ts, h, ps) ==
    [station_id |-> sid, last_updated |-> last_ts, predictions |-> Output(last_ts, h, ps)]

\* the return of the second def predict, the one the module name is bound to
PredictResult2(sid, last_ts, h, ps) ==
    [station_id |-> sid, predictions |-> Output(last_ts, h, ps)]

\* where a return value or an exception of predict goes: to the HTTP client,
\* or into predict_by_city's results (its except Exception clause)
\* a narrower except clause, which lets HTTPException through
CityCatchesNoHttp(exc) == exc.detail = "Internal Server Error"
CityCatches(exc) == TRUE
Deliver(who, sid, raised, value) ==
    IF who = "http"
    THEN /\ response' = IF raised THEN [status |-> value.status, detail |-> value.detail]
                        ELSE [status |-> 200, body |-> value]
         /\ UNCHANGED <<results, cpc>>
    ELSE IF raised /\ ~CityCatches(value)
    THEN /\ response' = [status |-> value.status, detail |-> value.detail]
         /\ cpc' = "done"
         /\ UNCHANGED results
    ELSE /\ results' = Append(results,
                IF raised THEN [station_id |-> sid, error |-> value.msg] ELSE value)
         /\ UNCHANGED <<response, cpc>>

\* predict up to the loop: the checks, load_model, the feature row
PredictCall(who, sid, h) ==
    /\ caller' = who
    /\ station_id' = sid
    /\ horizon' = h
    /\ preds' = <<>>
    /\ i' = 0
    /\ IF ~out.exists
       THEN /\ pc' = "done"
            /\ features' = NoFeatures /\ cur' = NoFeatures
            /\ Deliver(who, sid, TRUE, HTTPException(500, "Processed CSV not found"))
       ELSE IF ~modelPkl.exists
       THEN /\ pc' = "done"
            /\ features' = NoFeatures /\ cur' = NoFeatures
            /\ Deliver(who, sid, TRUE, HTTPException(500, "Model not found"))
       ELSE LET f == build_features_for_station(out, sid, MaxLag)
            IN /\ features' = f
               /\ cur' = f
               /\ IF ~f.found
                  THEN /\ pc' = "done"
                       /\ Deliver(who, sid, TRUE,
                             HTTPException(404, "station_id not found in processed data"))
                  ELSE /\ pc' = "loop"
                       /\ IF who = "http" THEN response' = NoResponse
                          ELSE UNCHANGED response
                       /\ UNCHANGED <<results, cpc>>

QueryStations == { SidOrder[k] : k \in 1..Len(SidOrder) }
Clock == {50}

\* GET /api/predict?station_id=..&horizon=..  (Query(24, ge=1, le=168))
HttpPredict ==
    \E sid \in QueryStations, h \in 0..MaxH :
        /\ pc = "idle" /\ cpc = "idle" /\ response = NoResponse
        /\ IF h < HorizonGe \/ h > HorizonLe
           THEN /\ response' = [status |-> 422, detail |-> "horizon out of range"]
                /\ UNCHANGED <<predictVars, results, cpc>>
           ELSE PredictCall("http", sid, h)
        /\ UNCHANGED <<fileVars, modelPkl, refreshVars, cityq, station_ids>>

\* for i in range(horizon): whether an iteration follows k completed ones
LoopRunsShort(k, h) == k < h - 1
LoopRuns(k, h) == k < h

\* one iteration of for i in range(horizon)
PredictStep ==
    /\ pc = "loop" /\ LoopRuns(i, horizon)
    /\ LET r == ModelPredict(modelPkl.model, cur)
       IN IF r.raised
          THEN /\ pc' = "done"
               /\ Deliver(caller, station_id, TRUE, PredictionError)
               /\ UNCHANGED <<cur, preds, i>>
          ELSE LET pred == Clamp(r.val)
               IN /\ preds' = Append(preds, pred)
                  /\ cur' = StepRow(cur, pred)
                  /\ i' = i + 1
                  /\ pc' = "loop"
                  /\ UNCHANGED <<response, results, cpc>>
    /\ UNCHANGED <<fileVars, modelPkl, refreshVars, caller, station_id, horizon,
                   features, cityq, station_ids>>

\* after the loop: the second read of the dataset, the timestamps, the return
PredictReturn ==
    /\ pc = "loop" /\ ~LoopRuns(i, horizon)
    /\ pc' = "done"
    /\ IF ~out.exists
       THEN Deliver(caller, station_id, TRUE, FileNotFound)
       ELSE \E now \in Clock :
              LET last_ts == LastTs(out, station_id, now)
              IN Deliver(caller, station_id, FALSE,
                    IF caller = "http"
                    THEN PredictResult(station_id, last_ts, horizon, preds)
                    ELSE PredictResult2(station_id, last_ts, horizon, preds))
    /\ UNCHANGED <<fileVars, modelPkl, refreshVars, caller, station_id, horizon,
                   features, cur, preds, i, cityq, station_ids>>

----------------------------------------------------------------------------
(* main.py: predict_by_city *)

\* Series.unique(): the values in order of first appearance
RECURSIVE Unique(_)
Unique(seq) ==
    IF seq = <<>> THEN <<>>
    ELSE LET n == Len(seq)
             u == Unique(SubSeq(seq, 1, n - 1))
         IN IF \E j \in 1..Len(u) : u[j] = seq[n] THEN u ELSE Append(u, seq[n])

\* df[df["city"].str.lower() == city.lower()]
CityMatches(file, city) ==
    SelectSeq(file.rows, LAMBDA r : Lower(r.city) = Lower(city))

CityQueries == {"DELHI", "Pune", "Goa"}

\* GET /api/predict_by_city?city=..&horizon=..  up to the loop over stations
CityBegin ==
    \E city \in CityQueries, h \in 0..MaxCityH :
        /\ pc = "idle" /\ cpc = "idle" /\ response = NoResponse
        /\ IF h < HorizonGe \/ h > HorizonLe
           THEN /\ response' = [status |-> 422, detail |-> "horizon out of range"]
                /\ UNCHANGED cityVars
           ELSE IF ~out.exists
           THEN /\ response' = [status |-> 500, detail |-> "Processed CSV not found"]
                /\ cpc' = "done"
                /\ UNCHANGED <<cityq, station_ids, results>>
           ELSE LET matches == CityMatches(out, city)
                IN /\ cityq' = [city |-> city, horizon |-> h, matches |-> matches]
                   /\ IF matches = <<>>
                      THEN /\ response' = [status |-> 404, detail |-> "City not found"]
                           /\ cpc' = "done"
                           /\ UNCHANGED <<station_ids, results>>
                      ELSE /\ cpc' = "fanout"
                           /\ station_ids' =
                                Unique([j \in 1..Len(matches) |-> matches[j].station_id])
                           /\ results' = <<>>
                           /\ UNCHANGED response
        /\ UNCHANGED <<fileVars, modelPkl, refreshVars, predictVars>>

\* for sid in station_ids: try: res = predict(sid, horizon)
CityCallPredict ==
    /\ cpc = "fanout" /\ pc # "loop"
    /\ Len(results) < Len(station_ids)
    /\ PredictCall("city", station_ids[Len(results) + 1], cityq.horizon)
    /\ UNCHANGED <<fileVars, modelPkl, refreshVars, cityq, station_ids>>

\* after the loop: last_updated of the matches and the return
CityReturn ==
    /\ cpc = "fanout" /\ pc # "loop"
    /\ Len(results) >= Len(station_ids)
    /\ cpc' = "done"
    /\ LET m == cityq.matches
           ts == { m[j].datetime_utc : j \in 1..Len(m) }
       IN response' = [status |-> 200,
                       body |-> [city |-> cityq.city,
                                 last_updated |-> CHOOSE t \in ts : \A u \in ts : u <= t,
                                 stations |-> results]]
    /\ UNCHANGED <<fileVars, modelPkl, refreshVars, predictVars, cityq, station_ids, results>>

\* the response is sent and the request's frame is discarded
EndRequest ==
    /\ response # NoResponse
    /\ pc # "loop" /\ cpc # "fanout"
    /\ pc' = "idle" /\ caller' = "http" /\ station_id' = "" /\ horizon' = 0
    /\ features' = NoFeatures /\ cur' = NoFeatures /\ preds' = <<>> /\ i' = 0
    /\ cpc' = "idle" /\ cityq' = [city |-> "", horizon |-> 0, matches |-> <<>>]
    /\ station_ids' = <<>> /\ results' = <<>>
    /\ response' = NoResponse
    /\ UNCHANGED <<fileVars, modelPkl, refreshVars>>

----------------------------------------------------------------------------
(* The forecaster alone: one dataset, one model file, /api/predict requests *)

MaxSeed == 2        \* records of the API answer the dataset was built from

M_const == Regressor(55, 0, {}, {})
M_ramp == Regressor(0 - 100, 50, {}, {})
M_fail == Regressor(0 - 100, 50, {3}, {})
M_nan == Regressor(0 - 100, 50, {}, {2})

SeedRecords ==
    { r \in ApiRecords :
        \/ r.station = "Anand Vihar" /\ r.pollutant_id = "PM2.5"
             /\ <<r.last_update, r.avg_value>> \in {<<47, F(40)>>, <<49, F(60)>>}
        \/ r.station = "Anand-Vihar" /\ r.last_update = 49 /\ r.avg_value = F(40)
        \/ IsNaN(r.avg_value) }

\* the processed files a first refresh leaves behind
FilesFrom(recs, n) ==
    {NoFile} \cup { File(Combined(NoFile, FetchedRows(b))) :
                      b \in { c \in BatchesOver(recs, n) : ~FetchReturnsNone(c) } }

IdleRefresh ==
    /\ requiredToken = ""
    /\ fetchFn = "loaded"
    /\ task = <<>>
    /\ nRefresh = 0

IdlePredict ==
    /\ pc = "idle" /\ caller = "http" /\ station_id = "" /\ horizon = 0
    /\ features = NoFeatures /\ cur = NoFeatures /\ preds = <<>> /\ i = 0

IdleCity ==
    /\ cpc = "idle" /\ cityq = [city |-> "", horizon |-> 0, matches |-> <<>>]
    /\ station_ids = <<>> /\ results = <<>>

Init ==
    /\ out \in FilesFrom(SeedRecords, MaxSeed)
    /\ hist = out
    /\ modelPkl \in {NoModel} \cup { ModelFile(m) : m \in {M_const, M_ramp, M_fail, M_nan} }
    /\ IdleRefresh /\ IdlePredict /\ IdleCity
    /\ response = NoResponse

Next == HttpPredict \/ PredictStep \/ PredictReturn \/ EndRequest

Spec == Init /\ [][Next]_vars

----------------------------------------------------------------------------
(* Claims about the forecaster, under Spec *)

InForecast == pc \in {"loop", "done"} /\ features.found
Answered200 == pc = "done" /\ caller = "http" /\ response.status = 200
NeverFails == modelPkl.exists /\ modelPkl.model.failHours = {}
\* the prediction function fails on the row the next iteration hands it
FailsOn(row) == row.hour \in modelPkl.model.failHours

\* C1: with a prediction function that does not fail, the loop of predict
\* runs exactly horizon iterations, never fewer and never more, and the
\* predictions list of the answer has exactly horizon entries.
C1_ExactlyHSteps ==
    /\ InForecast => i <= horizon /\ Len(preds) = i
    /\ (pc = "done" /\ caller = "http" /\ features.found /\ NeverFails) =>
          /\ i = horizon
          /\ response.status = 200
          /\ Len(response.body.predictions) = horizon
    /\ Answered200 => i = horizon /\ Len(response.body.predictions) = horizon

C1_Witness ==
    /\ Answered200 /\ horizon >= 25
    /\ Len(response.body.predictions) = horizon

InRange(v) == ~IsNaN(v) /\ ~RatLt(v, F(0)) /\ ~RatLt(F(1000), v)

\* C2: every pm25 of a returned trajectory, and every value written to lag_1
\* in the loop, lies in [0.0, 1000.0], whatever the prediction function
\* returned at that step.
C2_AllClamped ==
    /\ InForecast =>
          /\ \A j \in 1..Len(preds) : InRange(preds[j])
          /\ i >= 1 => InRange(cur.lag[1])
    /\ Answered200 =>
          \A j \in 1..Len(response.body.predictions) :
              InRange(response.body.predictions[j].pm25)

\* what holds of the clamp: a prediction is in [0.0, 1000.0] or it is NaN,
\* and NaN only where the prediction function returned NaN
C2_ClampedUnlessNaN ==
    /\ InForecast =>
          \A j \in 1..Len(preds) : InRange(preds[j]) \/ IsNaN(preds[j])
    /\ (InForecast /\ modelPkl.model.nanHours = {}) =>
          \A j \in 1..Len(preds) : InRange(preds[j])

C2_RawOutOfRangeSeen ==
    /\ pc = "loop" /\ i >= 1 /\ ~IsNaN(preds[i])
    /\ cur.hour = 0 /\ preds[i] = F(1000)
    /\ ModelPredict(modelPkl.model, [cur EXCEPT !.hour = 23]).val = F(1050)

\* C3: after every iteration lag_1 is that iteration's clamped prediction and
\* lag_k (k = 2..24) is the old lag_(k-1); so after i iterations lag_j is the
\* (i-j+1)-th prediction for j <= min(i, 24) and the initial lag_(j-i) above.
C3_LagWindow ==
    InForecast =>
        \A j \in 1..24 :
            cur.lag[j] = IF j <= i THEN preds[i - j + 1] ELSE features.lag[j - i]

C3_LagStep ==
    (pc = "loop" /\ i' = i + 1) =>
        /\ cur'.lag[1] = preds'[Len(preds')]
        /\ \A k \in 2..24 : cur'.lag[k] = cur.lag[k - 1]

\* C3: the lag window in every state of the loop, and the shift at every
\* iteration
C3_LagShift == [](C3_LagWindow) /\ [][C3_LagStep]_vars

\* 25 iterations done: the first prediction has left the window, the second
\* one sits in lag_24, and the predictions differ from one another
C3_Witness ==
    /\ pc = "loop" /\ i = 25
    /\ cur.lag[24] = preds[2] /\ cur.lag[1] = preds[25]
    /\ preds[1] # preds[2] /\ preds[2] # preds[3]

\* den * 24^k * value of a rolling mean with k fraction digits
RECURSIVE RollScaled(_, _)
RollScaled(ip, fr) ==
    IF fr = <<>> THEN ip ELSE RollScaled(ip * 24 + Head(fr), Tail(fr))

RECURSIVE Pow(_, _)
Pow(b, n) == IF n = 0 THEN 1 ELSE b * Pow(b, n - 1)

\* den * 24^n * ((r*23 + p)/24 applied n times to the initial mean)
RECURSIVE RollExpected(_)
RollExpected(n) ==
    IF n = 0 THEN features.rolling_24_mean.ip
    ELSE 23 * RollExpected(n - 1)
            + features.rolling_24_mean.den * preds[n][1] * Pow(24, n - 1)

\* C4: after every iteration rolling_24_mean = (old rolling_24_mean * 23 +
\* that iteration's clamped prediction) / 24.  The first four iterations are
\* compared with the recurrence worked out in whole numbers over 24^i.
C4_RollingClosed ==
    (InForecast /\ i <= 4 /\ \A j \in 1..i : ~IsNaN(preds[j])) =>
        /\ cur.rolling_24_mean.den = features.rolling_24_mean.den
        /\ Len(cur.rolling_24_mean.fr) = i
        /\ RollScaled(cur.rolling_24_mean.ip, cur.rolling_24_mean.fr) = RollExpected(i)

\* 24 * new = 23 * old + prediction, digit by digit
C4_RollingStep ==
    (pc = "loop" /\ i' = i + 1) =>
        LET old == cur.rolling_24_mean
            new == cur'.rolling_24_mean
            p == preds'[Len(preds')]
            m == Mul23(old.fr)
        IN IF old.den = 0 \/ IsNaN(p) THEN new.den = 0
           ELSE /\ new.den = old.den
                /\ Tail(new.fr) = m.fr
                /\ new.ip * 24 + Head(new.fr) = old.ip * 23 + m.carry + old.den * p[1]

\* C4: the rolling-mean recurrence, at every iteration and in closed form
C4_RollingMean == [](C4_RollingClosed) /\ [][C4_RollingStep]_vars

\* the feature row at 50.0 and a constant prediction 55.0: 1205/24 = 50 + 5/24
C4_Witness ==
    /\ pc = "loop" /\ i = 1
    /\ features.rolling_24_mean = [den |-> 1, ip |-> 50, fr |-> <<>>]
    /\ preds = <<F(55)>>
    /\ cur.rolling_24_mean = [den |-> 1, ip |-> 50, fr |-> <<5>>]

\* C5: every iteration sets hour to (hour + 1) mod 24: after i iterations
\* from hour h the field is (h + i) mod 24, within 0..23, and h again
\* after 24 iterations.
C5_HourAdvance ==
    InForecast =>
        /\ cur.hour \in 0..23
        /\ cur.hour = (features.hour + i) % 24
        /\ i = 24 => cur.hour = features.hour

C5_Witness ==
    /\ pc = "loop" /\ i = 24
    /\ features.hour = 23 /\ cur.hour = 23
    /\ cur.lag[24] = preds[1]

\* C6: when the prediction function fails at a step of a /predict request,
\* the request ends in an error and no predictions reach the caller.
C6_AbortedAnswer ==
    (pc = "done" /\ caller = "http" /\ features.found /\ i < horizon) =>
        /\ response.status = 500
        /\ DOMAIN response = {"status", "detail"}

C6_AbortStep ==
    (pc = "loop" /\ caller = "http" /\ i < horizon /\ FailsOn(cur)) =>
        /\ pc' = "done"
        /\ response'.status = 500
        /\ DOMAIN response' = {"status", "detail"}
        /\ preds' = preds

\* C6: a failing prediction function aborts the /predict request: the step
\* that fails answers 500, and an aborted request never carries predictions
C6_FailureAborts == [](C6_AbortedAnswer) /\ [][C6_AbortStep]_vars

\* the third iteration fails after two predictions were computed
C6_Witness ==
    /\ pc = "done" /\ caller = "http" /\ features.found
    /\ i = 2 /\ Len(preds) = 2 /\ horizon > 2
    /\ FailsOn(cur)
    /\ response.status = 500

----------------------------------------------------------------------------
(* The city fan-out: one dataset, one model file, /api/predict_by_city *)

MaxCityBatch == 3   \* records of the API answer the dataset was built from

M_fail23 == Regressor(0 - 100, 50, {23}, {})

CityRecords ==
    { r \in ApiRecords :
        /\ r.pollutant_id = "PM2.5"
        /\ <<r.station, r.last_update, r.avg_value>> \in
              { <<"Anand Vihar", 47, F(40)>>, <<"Anand Vihar", 49, F(60)>>,
                <<"ITO", 49, F(60)>>, <<"RK Puram", 49, F(40)>>,
                <<"Karve Road", 47, F(40)>> } }

InitCity ==
    /\ out \in FilesFrom(CityRecords, MaxCityBatch)
    /\ hist = out
    /\ modelPkl \in {NoModel, ModelFile(M_ramp), ModelFile(M_fail23)}
    /\ IdleRefresh /\ IdlePredict /\ IdleCity
    /\ response = NoResponse

NextCity ==
    CityBegin \/ CityCallPredict \/ PredictStep \/ PredictReturn \/ CityReturn \/ EndRequest

SpecCity == InitCity /\ [][NextCity]_vars

\* the loop of predict as a function: n more iterations from row
RECURSIVE Trajectory(_, _, _)
Trajectory(row, n, acc) ==
    IF n = 0 THEN [ok |-> TRUE, preds |-> acc]
    ELSE IF row.hour \in modelPkl.model.failHours THEN [ok |-> FALSE, preds |-> acc]
    ELSE LET p == Clamp(ModelPredict(modelPkl.model, row).val)
         IN Trajectory(StepRow(row, p), n - 1, Append(acc, p))

\* the forecast of station sid over h hours fails
ForecastFails(sid, h) ==
    \/ ~modelPkl.exists
    \/ ~build_features_for_station(out, sid, MaxLag).found
    \/ ~Trajectory(build_features_for_station(out, sid, MaxLag), h, <<>>).ok

ForecastPreds(sid, h) ==
    Trajectory(build_features_for_station(out, sid, MaxLag), h, <<>>).preds

CityStationIds ==
    Unique([j \in 1..Len(cityq.matches) |-> cityq.matches[j].station_id])

\* C7: for a city with at least one record, predict_by_city answers with one
\* entry per distinct station_id of the city, in order of appearance; a
\* station whose forecast fails gives {station_id, error}, every other entry
\* is that station's forecast, and the request itself answers 200.
C7_FanOutIsolation ==
    /\ (cpc = "fanout") =>
          /\ station_ids = CityStationIds
          /\ Len(results) <= Len(station_ids)
    /\ (cpc = "done" /\ cityq.matches # <<>>) =>
          /\ response.status = 200
          /\ LET st == response.body.stations
                 h == cityq.horizon
             IN /\ Len(st) = Len(CityStationIds)
                /\ \A k \in 1..Len(st) :
                      /\ st[k].station_id = CityStationIds[k]
                      /\ IF ForecastFails(CityStationIds[k], h)
                         THEN DOMAIN st[k] = {"station_id", "error"}
                         ELSE /\ "error" \notin DOMAIN st[k]
                              /\ Len(st[k].predictions) = h
                              /\ \A j \in 1..h :
                                    st[k].predictions[j].pm25
                                        = ForecastPreds(CityStationIds[k], h)[j]

\* three stations of one city, the first fails and the other two succeed
C7_Witness ==
    /\ cpc = "done" /\ response.status = 200
    /\ Len(response.body.stations) = 3
    /\ "error" \in DOMAIN response.body.stations[1]
    /\ "error" \notin DOMAIN response.body.stations[2]
    /\ "error" \notin DOMAIN response.body.stations[3]

\* what GET /api/predict answers for the station and horizon
HttpPredictBody(sid, h) ==
    PredictResult(sid, LastTs(out, sid, 0), h, ForecastPreds(sid, h))

\* what holds of the entries: station_id and predictions are those of /predict
C8_EntriesAgreeOnPredictions ==
    (cpc = "done" /\ response.status = 200) =>
        \A k \in 1..Len(response.body.stations) :
            LET e == response.body.stations[k]
            IN "error" \notin DOMAIN e =>
                  /\ DOMAIN e = {"station_id", "predictions"}
                  /\ e.predictions
                        = HttpPredictBody(e.station_id, cityq.horizon).predictions

\* C8: every successful entry of a predict_by_city answer is the result
\* /predict gives for that station and horizon: station_id, last_updated
\* and predictions.
C8_EntriesArePredictResults ==
    (cpc = "done" /\ response.status = 200) =>
        \A k \in 1..Len(response.body.stations) :
            LET e == response.body.stations[k]
            IN "error" \notin DOMAIN e =>
                  /\ DOMAIN e = {"station_id", "last_updated", "predictions"}
                  /\ e = HttpPredictBody(e.station_id, cityq.horizon)

----------------------------------------------------------------------------
(* main.py: refresh, and fetch_data running for it *)

Unset == "<unset>"                     \* os.getenv(..) is None, header absent
Truthy(x) == x \notin {Unset, ""}

\* if required_token: if not x_refresh_token or x_refresh_token != required_token
AuthorizedLax(required, token) ==
    ~Truthy(required) \/ ~Truthy(token) \/ token = required
Authorized(required, token) ==
    ~Truthy(required) \/ (Truthy(token) /\ token = required)

Tokens == {Unset, "", "s3cret", "wrong"}
\* the header of a request: clients of a server without REFRESH_TOKEN send none
RequestTokens == IF requiredToken = Unset THEN {Unset} ELSE Tokens

\* log: the last line the request wrote with logging.info / logging.exception
IdleTask ==
    [pc |-> "idle", blocking |-> FALSE, token |-> Unset, df |-> <<>>,
     hist_df |-> NoFile, combined |-> <<>>, resp |-> NoResponse, log |-> ""]

RefreshRecords ==
    { r \in ApiRecords :
        \/ r.pollutant_id = "PM10"
        \/ IsNaN(r.avg_value)
        \/ r.station = "Anand Vihar" /\ r.last_update = 47 /\ r.avg_value = F(60)
        \/ r.station = "Anand-Vihar" /\ r.last_update = 47 /\ r.avg_value = F(40)
        \/ r.station = "ITO" /\ r.last_update = 49 /\ r.avg_value = F(60) }

MaxConcBatch == 1   \* records in one answer of the API, with requests in parallel

\* readings of two stations, two of them with the same key
ConcurrentRecords ==
    { r \in ApiRecords :
        \/ r.station = "Anand Vihar" /\ r.last_update = 47 /\ r.avg_value = F(60)
        \/ r.station = "Anand-Vihar" /\ r.last_update = 47 /\ r.avg_value = F(40)
        \/ r.station = "ITO" /\ r.last_update = 49 /\ r.avg_value = F(60) }

\* the answers of the upstream API considered: resp.json()["records"]
Upstream ==
    IF DOMAIN task = {1} THEN BatchesOver(RefreshRecords, MaxBatch)
    ELSE BatchesOver(ConcurrentRecords, MaxConcBatch)

\* what a finished run of fetch_data leaves for its caller: the answer of a
\* blocking request, nothing for a background task (_run_fetch only logs)
\* the blocking call made through _run_fetch as well: its exception is
\* logged and swallowed, and the request answers ok
FinishSwallowed(t, raised, result) ==
    [t EXCEPT !.pc = "done",
              !.log = IF raised THEN "CPCB fetch failed"
                      ELSE (IF t.blocking THEN t.log ELSE "CPCB fetch finished"),
              !.resp = IF ~t.blocking THEN t.resp
                       ELSE [status |-> 200, body |-> [status |-> "ok", result |-> result]]]

Finish(t, raised, result) ==
    [t EXCEPT !.pc = "done",
              !.log = IF raised
                      THEN (IF t.blocking THEN "Blocking fetch failed" ELSE "CPCB fetch failed")
                      ELSE (IF t.blocking THEN t.log ELSE "CPCB fetch finished"),
              !.resp = IF ~t.blocking THEN t.resp
                       ELSE IF raised THEN [status |-> 500, detail |-> "Fetch failed"]
                       ELSE [status |-> 200, body |-> [status |-> "ok", result |-> result]]]

\* POST /api/refresh up to the call of _fetch_data or add_task
RefreshCall ==
    \E s \in DOMAIN task, token \in RequestTokens, blocking \in BOOLEAN, loads \in BOOLEAN :
        /\ task[s].pc = "idle"
        /\ nRefresh < MaxRefresh
        /\ nRefresh' = nRefresh + 1
        /\ LET t == [task[s] EXCEPT !.token = token, !.blocking = blocking]
           IN IF ~Authorized(requiredToken, token)
              THEN /\ task' = [task EXCEPT ![s] =
                         [t EXCEPT !.pc = "done",
                                   !.resp = [status |-> 403,
                                             detail |-> "Invalid or missing refresh token"]]]
                   /\ UNCHANGED fetchFn
              ELSE IF fetchFn = "none" /\ ~loads
              THEN /\ task' = [task EXCEPT ![s] =
                         [t EXCEPT !.pc = "done",
                                   !.resp = [status |-> 500,
                                             detail |-> "Could not load fetch logic"]]]
                   /\ UNCHANGED fetchFn
              ELSE /\ fetchFn' = "loaded"
                   /\ task' = [task EXCEPT ![s] =
                         [t EXCEPT !.pc = "fetch",
                                   !.resp = IF blocking THEN NoResponse
                                            ELSE [status |-> 200,
                                                  body |-> [status |-> "scheduled"]]]]
        /\ UNCHANGED <<fileVars, modelPkl, requiredToken, predictVars, cityVars, response>>

\* fetch_data: the request to the API and the rows kept of its answer
FetchRecords ==
    \E s \in DOMAIN task, raises \in BOOLEAN, records \in Upstream :
        /\ task[s].pc = "fetch"
        /\ task' = [task EXCEPT ![s] =
              IF raises THEN Finish(task[s], TRUE, "None")
              ELSE IF FetchReturnsNone(records) THEN Finish(task[s], FALSE, "None")
              ELSE [task[s] EXCEPT !.pc = "merge", !.df = FetchedRows(records)]]
        /\ UNCHANGED <<fileVars, modelPkl, requiredToken, fetchFn, nRefresh,
                       predictVars, cityVars, response>>

\* fetch_data: the history file is read, if there is one, and merged
ReadMerge ==
    \E s \in DOMAIN task :
    /\ task[s].pc = "merge"
    /\ task' = [task EXCEPT ![s] =
          [task[s] EXCEPT !.pc = "write_hist", !.hist_df = hist,
                          !.combined = Combined(hist, task[s].df)]]
    /\ UNCHANGED <<fileVars, modelPkl, requiredToken, fetchFn, nRefresh,
                   predictVars, cityVars, response>>

\* combined.to_csv(HIST, index=False)
WriteHist ==
    \E s \in DOMAIN task :
    /\ task[s].pc = "write_hist"
    /\ hist' = File(task[s].combined)
    /\ task' = [task EXCEPT ![s] = [task[s] EXCEPT !.pc = "write_out"]]
    /\ UNCHANGED <<out, modelPkl, requiredToken, fetchFn, nRefresh,
                   predictVars, cityVars, response>>

\* combined.to_csv(OUT, index=False) and the return
WriteOut ==
    \E s \in DOMAIN task :
    /\ task[s].pc = "write_out"
    /\ out' = File(task[s].combined)
    /\ task' = [task EXCEPT ![s] =
          Finish(task[s], FALSE,
                 [fetched |-> Len(task[s].df), historical_total |-> Len(task[s].combined)])]
    /\ UNCHANGED <<hist, modelPkl, requiredToken, fetchFn, nRefresh,
                   predictVars, cityVars, response>>

\* the request is over: its slot takes the next one
EndRefresh ==
    \E s \in DOMAIN task :
    /\ task[s].pc = "done"
    /\ task' = [task EXCEPT ![s] = IdleTask]
    /\ UNCHANGED <<fileVars, modelPkl, requiredToken, fetchFn, nRefresh,
                   predictVars, cityVars, response>>

----------------------------------------------------------------------------
(* Refreshes one after another, from a server with no history file *)

InitRefresh ==
    /\ hist = NoFile /\ out = NoFile
    /\ modelPkl = NoModel
    /\ requiredToken \in {Unset, "", "s3cret"}
    /\ fetchFn \in {"none", "loaded"}
    /\ task = [s \in {1} |-> IdleTask]
    /\ nRefresh = 0
    /\ IdlePredict /\ IdleCity
    /\ response = NoResponse

NextRefresh ==
    RefreshCall \/ FetchRecords \/ ReadMerge \/ WriteHist \/ WriteOut \/ EndRefresh

SpecRefresh == InitRefresh /\ [][NextRefresh]_vars

\* C9: with a refresh secret configured and the request's token missing or
\* different, refresh answers 403 before any work: the fetch function is not
\* loaded, not called and not scheduled, and the dataset files are unchanged,
\* in blocking and in background mode alike.
BadToken(t) == Truthy(requiredToken) /\ t.token # requiredToken

C9_RejectedState ==
    \A s \in DOMAIN task :
        (task[s].pc # "idle" /\ BadToken(task[s])) =>
            /\ task[s].pc = "done"
            /\ task[s].resp.status = 403

C9_RejectStep ==
    \A s \in DOMAIN task :
        (task[s].pc = "idle" /\ task'[s].pc # "idle" /\ BadToken(task'[s])) =>
            /\ task'[s].pc = "done"
            /\ task'[s].resp.status = 403
            /\ fetchFn' = fetchFn
            /\ hist' = hist /\ out' = out

\* C9: a request with a bad token is answered 403 in the step that receives
\* it, with nothing loaded, started, scheduled or written
C9_ForbiddenBeforeWork == [](C9_RejectedState) /\ [][C9_RejectStep]_vars

\* a background request without the header, the fetch function still unloaded
C9_Witness ==
    \E s \in DOMAIN task :
        /\ requiredToken = "s3cret" /\ task[s].token = Unset
        /\ ~task[s].blocking
        /\ task[s].pc = "done" /\ task[s].resp.status = 403
        /\ fetchFn = "none"

NoDuplicateKeys(rows) ==
    \A j, l \in 1..Len(rows) : j # l => ~SameKey(rows[j], rows[l])

\* a run that has just written: every row it fetched that is the last of its
\* key in the answer is in the dataset, and no other row has that key, unless
\* there was no history file to merge with
Wrote(t) == t.pc = "done" /\ t.df # <<>>
LastOfKey(df, j) == \A l \in (j + 1)..Len(df) : ~SameKey(df[j], df[l])

C10_FetchedWins ==
    \A s \in DOMAIN task :
        Wrote(task[s]) =>
            \A j \in 1..Len(task[s].df) :
                LET r == task[s].df[j]
                    same == SelectSeq(out.rows, LAMBDA x : SameKey(x, r))
                IN /\ \A l \in 1..Len(same) :
                        \E m \in 1..Len(task[s].df) : same[l] = task[s].df[m]
                   /\ LastOfKey(task[s].df, j) => \E l \in 1..Len(same) : same[l] = r

\* C10: after every completed refresh, starting from no history file, the
\* processed dataset holds at most one row per (station_id, timestamp), and a
\* fetched record replaces the historical one with its key.
C10_OneRowPerKey ==
    (out.exists /\ \A s \in DOMAIN task : task[s].pc \in {"idle", "done"}) =>
        /\ NoDuplicateKeys(out.rows)
        /\ C10_FetchedWins

----------------------------------------------------------------------------
(* The feature builder alone: a processed CSV of any origin (PROCESSED_CSV  *)
(* may name the file of clean_data.py, whose pm25 may be missing; the API   *)
(* may leave latitude out), and one call of build_features_for_station      *)

MaxRows == 3        \* rows of the processed CSV

FeatureTimes == {20, 47, 49}
FeatureQueries == {"CPCB_ITO__delhi", "CPCB_Karve_Road__Pune", "CPCB_RK_Puram__Delhi"}

FeatureRow(sid, t, v, lat) ==
    [station_id |-> sid, station_name |-> "", city |-> "",
     datetime_utc |-> t, pm25 |-> v, lat |-> lat, lon |-> F(77)]

FeatureRows ==
    { FeatureRow("CPCB_ITO__delhi", t, v, F(29)) :
         t \in FeatureTimes, v \in {F(40), F(60), NaN} }
    \cup { FeatureRow("CPCB_ITO__delhi", 49, F(60), NaN),
           FeatureRow("CPCB_Karve_Road__Pune", 49, F(40), F(18)) }

FeatureDatasets == { File(b) : b \in BatchesOver(FeatureRows, MaxRows) }

\* features = build_features_for_station(PROCESSED_CSV, station_id, max_lag=24)
BuildFeatures ==
    \E sid \in FeatureQueries :
        /\ pc = "idle"
        /\ pc' = "built"
        /\ station_id' = sid
        /\ features' = build_features_for_station(out, sid, MaxLag)
        /\ UNCHANGED <<fileVars, modelPkl, refreshVars, caller, horizon, cur, preds, i,
                       cityVars, response>>

InitFeatures ==
    /\ out \in FeatureDatasets
    /\ hist = NoFile
    /\ modelPkl = NoModel
    /\ IdleRefresh /\ IdlePredict /\ IdleCity
    /\ response = NoResponse

NextFeatures == BuildFeatures

SpecFeatures == InitFeatures /\ [][NextFeatures]_vars

\* the hourly series of a column from its first hour to hour t, filled
\* forwards: each hour without a defined mean repeats the hour before it
RECURSIVE SeriesUpTo(_, _, _)
SeriesUpTo(col, first, t) ==
    IF t < first THEN <<>>
    ELSE LET s == SeriesUpTo(col, first, t - 1)
             m == HourMean(col, t)
         IN Append(s, IF IsNaN(m) /\ s # <<>> THEN s[Len(s)] ELSE m)

\* the resampled, forward-filled pm25 series of the station asked for
BuiltSeries ==
    LET rows == StationRows(out, station_id)
        ts == { rows[j].datetime_utc : j \in 1..Len(rows) }
        first == CHOOSE t \in ts : \A u \in ts : t <= u
        last == CHOOSE t \in ts : \A u \in ts : u <= t
    IN IF rows = <<>> THEN <<>>
       ELSE SeriesUpTo([j \in 1..Len(rows) |-> <<rows[j].datetime_utc, rows[j].pm25>>],
                       first, last)

\* C11: the feature row is fully defined.  For a station whose resampled,
\* forward-filled series has n rows, lag_k is the pm25 value k hours before
\* the last row for k < n, and 0.0 for every k in 1..24 with no such hour or
\* an undefined value; rolling_24_mean, hour, dayofweek, lat and lon are
\* never undefined; a station with no records gives the not-found signal
\* and no row.
C11_FeaturesDefined ==
    pc = "built" =>
        LET s == BuiltSeries
            n == Len(s)
        IN IF StationRows(out, station_id) = <<>>
           THEN features = NoFeatures
           ELSE /\ features.found
                /\ DOMAIN features.lag = 1..MaxLag
                /\ \A k \in 1..MaxLag :
                      features.lag[k] =
                         IF k < n /\ ~IsNaN(s[n - k]) THEN s[n - k] ELSE F(0)
                /\ features.rolling_24_mean.den # 0
                /\ features.hour \in 0..23
                /\ features.dayofweek \in 0..6
                /\ ~IsNaN(features.lat)
                /\ ~IsNaN(features.lon)

\* a station with three hours of history (one of them filled): lag_1 and
\* lag_2 are readings, every lag from 3 on is 0.0
C11_Witness ==
    /\ pc = "built" /\ features.found
    /\ Len(BuiltSeries) = 3
    /\ features.lag[1] # F(0) /\ features.lag[2] # F(0)
    /\ \A k \in 3..MaxLag : features.lag[k] = F(0)

\* more than 24 hours of history: every lag is a reading
C11_LongHistory ==
    /\ pc = "built" /\ features.found
    /\ Len(BuiltSeries) > MaxLag
    /\ \A k \in 1..MaxLag : features.lag[k] # F(0)

\* an hour inside the series with no defined value
C11_UndefinedInside ==
    /\ pc = "built" /\ features.found
    /\ \E k \in 1..MaxLag : k < Len(BuiltSeries) /\ IsNaN(BuiltSeries[Len(BuiltSeries) - k])

\* a station whose latitude is missing in every row
C11_LatAbsent ==
    /\ pc = "built" /\ features.found
    /\ features.lat = F(0)

C11_NotFound ==
    /\ pc = "built" /\ ~features.found /\ out.rows # <<>>

----------------------------------------------------------------------------
(* The timestamps of a /api/predict answer, under Spec *)

\* the latest datetime_utc among the station's rows of the processed CSV
LastObserved(sid) ==
    LET rows == StationRows(out, sid)
        ts == { rows[j].datetime_utc : j \in 1..Len(rows) }
    IN CHOOSE t \in ts : \A u \in ts : u <= t

\* C12: in a /predict response the i-th forecast step (i = 1..H) carries
\* the station's last observed timestamp + i hours, so the timestamps rise
\* strictly, one hour at a time, and last_updated is the station's last
\* observed timestamp.
C12_Timestamps ==
    Answered200 =>
        LET body == response.body
            p == body.predictions
        IN /\ StationRows(out, station_id) # <<>>
           /\ body.station_id = station_id
           /\ body.last_updated = LastObserved(station_id)
           /\ Len(p) = horizon
           /\ \A j \in 1..Len(p) :
                 /\ p[j].timestamp = LastObserved(station_id) + j
                 /\ p[j].pm25 = preds[j]
           /\ \A j \in 1..(Len(p) - 1) : p[j + 1].timestamp = p[j].timestamp + 1

\* a station observed at hours 47 and 49, a forecast of more than a day
C12_Witness ==
    /\ Answered200
    /\ \E j \in 1..Len(out.rows) :
          out.rows[j].station_id = station_id /\ out.rows[j].datetime_utc = 47
    /\ response.body.last_updated = 49
    /\ horizon >= 25
    /\ response.body.predictions[1].timestamp = 50
    /\ response.body.predictions[25].timestamp = 74

----------------------------------------------------------------------------
(* What a failing ingestion run does to its request, under SpecRefresh *)

Scheduled == [status |-> 200, body |-> [status |-> "scheduled"]]
Failed(t) == t.log \in {"Blocking fetch failed", "CPCB fetch failed"}
\* the request got past the token check and the loading of the routine
Running(t) == t.pc \in {"fetch", "merge", "write_hist", "write_out"}

C13_Answers ==
    \A s \in DOMAIN task :
        LET t == task[s]
        IN /\ (t.blocking /\ Failed(t)) =>
                 /\ t.pc = "done"
                 /\ t.log = "Blocking fetch failed"
                 /\ t.resp.status = 500
           /\ (t.blocking /\ Running(t)) => t.resp = NoResponse
           /\ (~t.blocking /\ (Running(t) \/ t.log # "")) => t.resp = Scheduled
           /\ (~t.blocking /\ Failed(t)) => t.log = "CPCB fetch failed"

\* the step in which the routine raises: a blocking request turns from
\* unanswered to 500; a background request keeps the answer it had given,
\* and nothing but the task's own position and log line changes
C13_FailStep ==
    \A s \in DOMAIN task :
        (~Failed(task[s]) /\ Failed(task'[s])) =>
            /\ task[s].pc = "fetch"
            /\ task'[s].pc = "done"
            /\ UNCHANGED <<fileVars, modelPkl, requiredToken, fetchFn, nRefresh,
                           predictVars, cityVars, response>>
            /\ \A o \in DOMAIN task \ {s} : task'[o] = task[o]
            /\ IF task[s].blocking
               THEN task[s].resp = NoResponse /\ task'[s].resp.status = 500
               ELSE /\ task[s].resp = Scheduled
                    /\ task'[s] = [task[s] EXCEPT !.pc = "done",
                                                  !.log = "CPCB fetch failed"]

\* C13: refresh failure asymmetry.  When the ingestion routine raises, a
\* blocking refresh answers 500 and never {status: ok}; a background
\* refresh has answered {status: scheduled} before the routine runs, and
\* the failure is logged and swallowed: the answer, the files and every
\* other part of the server are left as they were.
C13_FailureAsymmetry == [](C13_Answers) /\ [][C13_FailStep]_vars

\* a background run has failed: logged, the request's answer still scheduled
C13_Witness ==
    \E s \in DOMAIN task :
        /\ ~task[s].blocking /\ task[s].pc = "done"
        /\ task[s].log = "CPCB fetch failed"
        /\ task[s].resp = Scheduled

\* a blocking run has failed: answered 500
C13_BlockingFailed ==
    \E s \in DOMAIN task :
        /\ task[s].blocking /\ task[s].pc = "done"
        /\ task[s].log = "Blocking fetch failed"
        /\ task[s].resp.status = 500

----------------------------------------------------------------------------
(* Two refresh requests in flight at once: the handler is a plain def, run  *)
(* by the server's thread pool, and fetch_data takes no lock                *)

InitConcurrent ==
    /\ hist = NoFile /\ out = NoFile
    /\ modelPkl = NoModel
    /\ requiredToken = Unset
    /\ fetchFn = "loaded"
    /\ task = [s \in {1, 2} |-> IdleTask]
    /\ nRefresh = 0
    /\ IdlePredict /\ IdleCity
    /\ response = NoResponse

SpecConcurrent == InitConcurrent /\ [][NextRefresh]_vars

Keys(rows) == { <<rows[j].station_id, rows[j].datetime_utc>> : j \in 1..Len(rows) }

\* both requests have run fetch_data to its end, each with rows of its own
BothWrote == Wrote(task[1]) /\ Wrote(task[2])

\* the runs were one after the other, a then b: b read the history file a
\* had written, and wrote both files last
Serial(a, b) ==
    /\ b.hist_df = File(a.combined)
    /\ hist = File(b.combined)
    /\ out = File(b.combined)

\* a key one of the two runs fetched is in neither file
LostUpdate ==
    \E s \in DOMAIN task :
        \E k \in Keys(task[s].df) : k \notin Keys(hist.rows) /\ k \notin Keys(out.rows)

\* a run merges what it read with what it fetched; two runs one after the
\* other leave the keys of both in the two files
C14_KeepsBoth ==
    /\ \A s \in DOMAIN task :
          task[s].pc \in {"write_hist", "write_out"} \/ Wrote(task[s]) =>
              Keys(task[s].hist_df.rows) \cup Keys(task[s].df) = Keys(task[s].combined)
    /\ BothWrote /\ (Serial(task[1], task[2]) \/ Serial(task[2], task[1])) =>
          /\ Keys(task[1].df) \cup Keys(task[2].df) \subseteq Keys(out.rows)
          /\ Keys(out.rows) = Keys(hist.rows)

\* of two requests, the one that starts its merge after the other has
\* finished reads the history file the other wrote, and its own write of
\* the processed file is the one that stays
C14_SerialStep ==
    \A a, b \in DOMAIN task :
        (a # b /\ nRefresh = 2 /\ Wrote(task[a])) =>
            /\ (task[b].pc = "merge" /\ task'[b].pc = "write_hist") =>
                  task'[b].hist_df = File(task[a].combined)
            /\ (task[b].pc = "write_out" /\ task'[b].pc = "done") =>
                  out' = File(task[b].combined)

\* C14: refreshes are not serialized.  Each reads the history file, merges
\* and rewrites both files without a lock: when two have run one after the
\* other, in either order, the dataset holds the keys both fetched; run
\* concurrently they can interleave so that the records of one are missing
\* from the final dataset (C14_Witness).
C14_SerialKeepsBoth == [](C14_KeepsBoth) /\ [][C14_SerialStep]_vars

\* both runs are over and the records of one are in neither file
C14_Witness ==
    /\ BothWrote
    /\ LostUpdate
    /\ hist = out

\* the two runs one after the other, with different records
C14_SerialReached ==
    /\ BothWrote
    /\ Serial(task[1], task[2])
    /\ Keys(task[1].df) # Keys(task[2].df)

\* no run ever loses a fetched key: violated by the concurrent runs
C14_NoLostUpdate == BothWrote => ~LostUpdate
====
